---- MODULE Spec2Model ----
(***************************************************************************)
(* Model of igd_exporter/igd.py: SSDP discovery (search, search_socket,    *)
(* search_result, search_parse).                                           *)
(*                                                                         *)
(* Byte strings are sequences of atoms.  An atom is either one of the      *)
(* bytes the parser looks at ("CR", "LF", "SP", "HT", ":") or a run of     *)
(* other bytes that the parser never splits ("HTTP/1.1", "200", "//a").    *)
(***************************************************************************)
EXTENDS Integers, Sequences, FiniteSets, TLC

(* ------------------------------ bounds -------------------------------- *)

\* Largest number of header lines in a datagram handed to search_result.
MaxHeaders == 2

\* Largest number of datagrams the network delivers to one socket in the
\* bounded specifications (the flood specification delivers more than the cap).
MaxDatagrams == 2

(* ------------------------- Python byte helpers ------------------------ *)

CRLF == <<"CR", "LF">>

\* Bytes that bytes.split() and bytes.lstrip() treat as whitespace.
IsSpace(b) == b \in {"SP", "HT", "CR", "LF"}

\* bytes.find: index of the first occurrence of sep in s, 0 when absent.
Find(s, sep) ==
    LET hits == {i \in 1..(Len(s) - Len(sep) + 1) : SubSeq(s, i, i + Len(sep) - 1) = sep}
    IN  IF hits = {} THEN 0 ELSE CHOOSE i \in hits : \A j \in hits : i <= j

\* bytes.partition(sep): <<head, sep, tail>> at the first occurrence of sep,
\* <<s, empty, empty>> when sep does not occur.
partition(s, sep) ==
    LET i == Find(s, sep)
    IN  IF i = 0 THEN <<s, <<>>, <<>>>>
        ELSE <<SubSeq(s, 1, i - 1), sep, SubSeq(s, i + Len(sep), Len(s))>>

\* Length of the leading run of non-whitespace bytes of s.
RECURSIVE WordLen(_)
WordLen(s) ==
    IF s = <<>> \/ IsSpace(Head(s)) THEN 0 ELSE 1 + WordLen(Tail(s))

\* bytes.split(): the maximal runs of non-whitespace bytes, in order.
RECURSIVE split(_)
split(s) ==
    IF s = <<>> THEN <<>>
    ELSE IF IsSpace(Head(s)) THEN split(Tail(s))
    ELSE LET k == WordLen(s)
         IN  <<SubSeq(s, 1, k)>> \o split(SubSeq(s, k + 1, Len(s)))

\* bytes.lstrip(): s without its leading whitespace.
RECURSIVE lstrip(_)
lstrip(s) ==
    IF s # <<>> /\ IsSpace(Head(s)) THEN lstrip(Tail(s)) ELSE s

\* str.lower() on one atom: only the spellings of the header names differ by case.
LowerAtom(a) ==
    CASE a = "Location" -> "location"
      [] a = "LOCATION" -> "location"
      [] a = "Server"   -> "server"
      [] a = "EXT"      -> "ext"
      [] OTHER          -> a

\* str.lower().
lower(s) == [i \in 1..Len(s) |-> LowerAtom(s[i])]

(* ------------------------- Python values ------------------------------ *)

PyNone == [isNone |-> TRUE, s |-> <<>>]

PyStr(s) == [isNone |-> FALSE, s |-> s]

(* ---------------------- search_parse / search_result ------------------ *)

\* The header loop of search_parse: headers is the list of (name, value)
\* pairs added so far (wsgiref Headers keeps them in order, duplicates too).
RECURSIVE ParseHeaders(_, _)
ParseHeaders(buf, headers) ==
    LET p == partition(buf, CRLF)
        header == p[1]
    IN  IF header = <<>>
        THEN [headers |-> headers, buf |-> p[3]]
        ELSE LET q == partition(header, <<":">>)
             IN  ParseHeaders(p[3], Append(headers, <<q[1], lstrip(q[3])>>))

\* search_parse(buf): raised is TRUE when the call raises (the unpacking of
\* status.split() into three names, or the status check).
search_parse(buf) ==
    LET p == partition(buf, CRLF)
        words == split(p[1])
    IN  IF Len(words) # 3
        THEN [raised |-> TRUE, headers |-> <<>>, buf |-> <<>>]
        ELSE IF words[2] # <<"200">>
        THEN [raised |-> TRUE, headers |-> <<>>, buf |-> <<>>]
        ELSE LET h == ParseHeaders(p[3], <<>>)
             IN  [raised |-> FALSE, headers |-> h.headers, buf |-> h.buf]

\* Headers_getitem with the names compared as they are spelled.
Headers_getitem_exact(headers, name) ==
    LET hits == {i \in 1..Len(headers) : headers[i][1] = name}
    IN  IF hits = {} THEN PyNone
        ELSE PyStr(headers[CHOOSE i \in hits : \A j \in hits : i <= j][2])

\* wsgiref.headers.Headers.__getitem__ (get): the value of the first header
\* whose name matches case-insensitively, None when there is none.
Headers_getitem(headers, name) ==
    LET hits == {i \in 1..Len(headers) : lower(headers[i][1]) = lower(name)}
    IN  IF hits = {} THEN PyNone
        ELSE PyStr(headers[CHOOSE i \in hits : \A j \in hits : i <= j][2])

\* search_result(buf, addr): any exception of search_parse is re-raised as
\* 'Malformed search result'.
search_result(buf) ==
    LET r == search_parse(buf)
    IN  IF r.raised THEN [raised |-> TRUE, value |-> PyNone]
        ELSE [raised |-> FALSE, value |-> Headers_getitem(r.headers, <<"Location">>)]

(* --------------------------- datagrams on the wire -------------------- *)

\* A header line "name:<pad>value" as a peer writes it.
Field(name, pad, value) == [colon |-> TRUE, name |-> name, pad |-> pad, value |-> value]

\* A non-empty line that holds no colon.
Bare(text) == [colon |-> FALSE, name |-> text, pad |-> <<>>, value |-> <<>>]

WireLine(l) == IF l.colon THEN l.name \o <<":">> \o l.pad \o l.value ELSE l.name

RECURSIVE WireLines(_)
WireLines(ls) ==
    IF ls = <<>> THEN <<>> ELSE WireLine(Head(ls)) \o CRLF \o WireLines(Tail(ls))

\* The bytes of a datagram: status line, header lines, and (when term) the
\* blank line that ends the header block followed by the body.
Wire(d) ==
    d.status \o CRLF \o WireLines(d.headers) \o (IF d.term THEN CRLF \o d.body ELSE <<>>)

Datagram(status, headers, term, body) ==
    [status |-> status, headers |-> headers, term |-> term, body |-> body]

NoDatagram == Datagram(<<>>, <<>>, FALSE, <<>>)

UrlA == <<"http", ":", "//a">>

UrlB == <<"http", ":", "//b">>

StatusOK == <<"HTTP/1.1", "SP", "200", "SP", "OK">>

StatusNotFound == <<"HTTP/1.1", "SP", "404", "SP", "Not", "SP", "Found">>

StatusNoReason == <<"HTTP/1.1", "SP", "200">>

StatusNotNumeric == <<"HTTP/1.1", "SP", "abc", "SP", "OK">>

StatusLines == {StatusOK, StatusNotFound, StatusNoReason, StatusNotNumeric}

LocA == Field(<<"Location">>, <<"SP">>, UrlA)

LocB == Field(<<"LOCATION">>, <<>>, UrlB)

LocationLines == {LocA, LocB, Field(<<"location">>, <<"SP", "HT">>, UrlA)}

Server == Field(<<"Server">>, <<"SP">>, <<"igd">>)

OtherLines == {Server, Field(<<"EXT">>, <<>>, <<>>)}

Junk == Bare(<<"junk">>)

BareLines == {Junk}

HeaderLines == LocationLines \cup OtherLines \cup BareLines

HeaderBlocks == UNION {[1..k -> HeaderLines] : k \in 0..MaxHeaders}

\* The body of a datagram: empty, or bytes that look like a Location line.
Bodies == {<<>>, WireLine(LocB) \o CRLF}

\* Every datagram the direct calls of search_result are tried on.
Datagrams ==
    {Datagram(st, hs, TRUE, b) : st \in StatusLines, hs \in HeaderBlocks, b \in Bodies}
    \cup {Datagram(st, hs, FALSE, <<>>) : st \in StatusLines, hs \in HeaderBlocks}

\* The datagrams a peer may send to a discovery socket.
GoodA == Datagram(StatusOK, <<Server, LocA>>, TRUE, <<>>)

GoodB == Datagram(StatusOK, <<LocB>>, TRUE, <<>>)

NoLocation == Datagram(StatusOK, <<Server>>, TRUE, <<>>)

NotFound == Datagram(StatusNotFound, <<LocA>>, TRUE, <<>>)

JunkLine == Datagram(StatusOK, <<Junk, LocA>>, TRUE, <<>>)

SearchPool == {GoodA, GoodB, NoLocation, NotFound}

SocketPool ==
    SearchPool \cup
    {JunkLine,
     Datagram(StatusNoReason, <<LocA>>, TRUE, <<>>),
     Datagram(StatusOK, <<LocB>>, FALSE, <<>>),
     Datagram(StatusOK, <<Server>>, TRUE, WireLine(LocB) \o CRLF)}

FloodPool == {GoodA, NotFound}

(* ------------------------------- state -------------------------------- *)

Families == {"AF_INET6", "AF_INET"}

\* range(100) in search_socket.
IterCap == 100

\* The SSDP port of sendto.
SsdpPort == 1900

VARIABLES
    call_dgram,   \* the datagram of a direct call of search_result
    call_buf,     \* its bytes (the argument buf)
    call_ret,     \* the outcome of the call; pending before it
    env,          \* which datagrams the peers may send (see Pool)
    net,          \* per family: how many datagrams the network still delivers
    sock,         \* per family: the socket (state and options)
    pc,           \* per family: where the call of search_socket stands
    n,            \* per family: completed iterations of the receive loop
    result,       \* per family: the list result of search_socket
    dgram,        \* per family: the datagram received last
    buf,          \* per family: its bytes (the local buf)
    settimeouts,  \* per family: calls of sock.settimeout
    recvs,        \* per family: calls of sock.recvfrom
    tracebacks,   \* per family: calls of traceback.print_exc
    recvd,        \* per family: how the last recvfrom ended
    sent,         \* per family: the datagrams given to sock.sendto
    wret,         \* per family: what search_socket returned
    spc,          \* where the call of search stands
    collected,    \* the worker results ex.map has yielded so far
    exc,          \* whether an exception is propagating out of search
    ret,          \* what search returned
    doc,          \* the description document behind target_url
    dev_ret,      \* the outcome of probe_device; pending before it
    mpc,          \* per metric: where its probe_metric work item stands
    raw,          \* per metric: the integer probe_metric returned
    completed,    \* the metrics in the order their work items ended
    ppc,          \* where the call of probe stands
    pk,           \* how many results the loop of probe has taken from ex.map
    presult,      \* the list result of probe
    pexc,         \* whether an exception is propagating out of probe
    pret,         \* what probe returned
    opstats,      \* the document a nexsan Collector was built on
    families,     \* the samples held by each metric family of the Collector
    cpc,          \* where the running call of Collector.collect stands
    ncalls,       \* completed calls of Collector.collect
    yielded       \* the families, with their samples, the last call yielded

vars == <<call_dgram, call_buf, call_ret, env, net, sock, pc, n, result, dgram, buf,
          settimeouts, recvs, tracebacks, recvd, sent, wret, spc, collected, exc, ret,
          doc, dev_ret, mpc, raw, completed, ppc, pk, presult, pexc, pret,
          opstats, families, cpc, ncalls, yielded>>

callVars == <<call_dgram, call_buf, call_ret>>

workerVars == <<pc, n, result, dgram, buf, settimeouts, recvs, tracebacks, recvd, sent, wret, net>>

searchVars == <<spc, collected, exc, ret>>

deviceVars == <<doc, dev_ret>>

probeVars == <<mpc, raw, completed, ppc, pk, presult, pexc, pret>>

nexsanVars == <<opstats, families, cpc, ncalls, yielded>>

\* The variables of the calls other than discovery.
otherVars == <<deviceVars, probeVars, nexsanVars>>

discoveryVars == <<callVars, env, sock, workerVars, searchVars>>

\* The datagrams the peers may send in the environment env.
Pool ==
    CASE env = "any"    -> Datagrams
      [] env = "socket" -> SocketPool
      [] env = "flood"  -> FloodPool
      [] OTHER          -> SearchPool

Pending == [done |-> FALSE, raised |-> FALSE, value |-> PyNone]

Outcome(r) == [done |-> TRUE, raised |-> r.raised, value |-> r.value]

NoSocket == [state |-> "none", reuseaddr |-> FALSE, v6only |-> FALSE]

OpenSocket == [state |-> "open", reuseaddr |-> FALSE, v6only |-> FALSE]

\* ---- probe_device: the description document and the Device it yields ----

\* Most services a serviceList of a generated document holds.
MaxServices == 2

\* A URL: its scheme and authority ("" when it has none) and its path as
\* a sequence of atoms, "/" being the separator.  NoUrl is Python's None.
NoUrl == [none |-> TRUE, origin |-> "", path |-> <<>>]

Url(origin, path) == [none |-> FALSE, origin |-> origin, path |-> path]

EmptyUrl == Url("", <<>>)

\* Python's truth value of a str or None.
Truthy(u) == ~u.none /\ (u.origin # "" \/ u.path # <<>>)

\* The path up to and including its last "/"; "/" for an empty path.
RECURSIVE DirOf(_)
DirOf(p) ==
    IF p = <<>> THEN <<"/">>
    ELSE IF p[Len(p)] = "/" THEN p
    ELSE DirOf(SubSeq(p, 1, Len(p) - 1))

\* urllib.parse.urljoin, on URLs without dot segments, query or fragment.
urljoin(base, url) ==
    IF ~Truthy(base) THEN url
    ELSE IF ~Truthy(url) THEN base
    ELSE IF url.origin # "" THEN url
    ELSE IF Head(url.path) = "/" THEN Url(base.origin, url.path)
    ELSE Url(base.origin, DirOf(base.path) \o url.path)

IGDType == "urn:schemas-upnp-org:device:InternetGatewayDevice:1"

WANDeviceType == "urn:schemas-upnp-org:device:WANDevice:1"

LANDeviceType == "urn:schemas-upnp-org:device:LANDevice:1"

CICType == "urn:schemas-upnp-org:service:WANCommonInterfaceConfig:1"

Layer3Type == "urn:schemas-upnp-org:service:Layer3Forwarding:1"

\* A <service> element and a <device> element of the document.
Service(type, control) == [serviceType |-> type, controlURL |-> control]

DeviceElement(type, udn, devices, services) ==
    [deviceType |-> type, UDN |-> udn, deviceList |-> devices,
     serviceList |-> services]

Document(urlbase, devices) == [URLBase |-> urlbase, devices |-> devices]

NoDocument == Document(NoUrl, <<>>)

RECURSIVE Flatten(_)
Flatten(ss) == IF ss = <<>> THEN <<>> ELSE Head(ss) \o Flatten(Tail(ss))

IsIGD(d) == d.deviceType = IGDType

IsWANDevice(d) == d.deviceType = WANDeviceType

IsLANDevice(d) == d.deviceType = LANDeviceType

\* st.find("d:device[IGD]/d:deviceList/d:device[WANDevice]"): every element
\* the path matches, in document order; find takes the first.
find_all(st) ==
    LET tops == SelectSeq(st.devices, IsIGD)
    IN  Flatten([i \in 1..Len(tops) |-> SelectSeq(tops[i].deviceList, IsWANDevice)])

HasControlURL(sv) == sv.serviceType = CICType /\ ~sv.controlURL.none

\* device.findtext("d:serviceList/d:service[CIC]/d:controlURL"): the text
\* of the first controlURL under a matching service, None without one.
findtext_controlURL(device) ==
    LET found == SelectSeq(device.serviceList, HasControlURL)
    IN  IF found = <<>> THEN NoUrl ELSE Head(found).controlURL

\* The Device namedtuple.
Device(udn, url) == [udn |-> udn, url |-> url]

DevicePending ==
    [done |-> FALSE, raised |-> FALSE, value |-> Device(PyNone, NoUrl)]

DeviceRaised ==
    [done |-> TRUE, raised |-> TRUE, value |-> Device(PyNone, NoUrl)]

\* The mutant Device: labelled with the UDN of the first top-level device.
probe_device_top_udn(st) ==
    LET found == find_all(st)
    IN  IF found = <<>> THEN DeviceRaised
        ELSE [done |-> TRUE, raised |-> FALSE,
              value |-> Device(st.devices[1].UDN,
                               urljoin(st.URLBase, findtext_controlURL(Head(found))))]

\* probe_device once the document is fetched and parsed: find gives None
\* without a match and None.findtext raises AttributeError.
probe_device(st) ==
    LET found == find_all(st)
    IN  IF found = <<>> THEN DeviceRaised
        ELSE [done |-> TRUE, raised |-> FALSE,
              value |-> Device(Head(found).UDN,
                               urljoin(st.URLBase, findtext_controlURL(Head(found))))]

\* ---- the description documents probe_device is run on ----

Origin == "http://192.0.2.1:80"

BaseRoot == Url(Origin, <<"/">>)

BaseFile == Url(Origin, <<"/", "dir", "/", "desc.xml">>)

BaseBare == Url(Origin, <<>>)

URLBases == {NoUrl, BaseRoot, BaseFile, BaseBare}

Rooted == Url("", <<"/", "upnp", "/", "control", "/", "WANCommonIFC1">>)

Relative == Url("", <<"ctl">>)

Elsewhere == Url("http://198.51.100.7", <<"/", "ctl">>)

ControlURLs == {NoUrl, EmptyUrl, Rooted, Relative, Elsewhere}

UdnIGD == PyStr(<<"uuid:igd">>)

UdnIGD2 == PyStr(<<"uuid:igd2">>)

UdnWAN == PyStr(<<"uuid:wan">>)

UdnWAN2 == PyStr(<<"uuid:wan2">>)

UdnLAN == PyStr(<<"uuid:lan">>)

Services ==
    {Service(CICType, c) : c \in ControlURLs} \cup {Service(Layer3Type, Rooted)}

RECURSIVE SeqsUpTo(_, _)
SeqsUpTo(S, k) ==
    IF k = 0 THEN {<<>>}
    ELSE LET shorter == SeqsUpTo(S, k - 1)
         IN  shorter \cup {Append(q, x) : q \in shorter, x \in S}

ServiceLists == SeqsUpTo(Services, MaxServices)

WANDevices ==
    {DeviceElement(WANDeviceType, u, <<>>, sl) :
        u \in {UdnWAN, PyNone}, sl \in ServiceLists}

LANDevice == DeviceElement(LANDeviceType, UdnLAN, <<>>, <<>>)

BareWANDevice == DeviceElement(WANDeviceType, UdnWAN, <<>>, <<>>)

GoodWANDevice ==
    DeviceElement(WANDeviceType, UdnWAN2, <<>>, <<Service(CICType, Rooted)>>)

DeviceLists ==
    {<<>>, <<LANDevice>>, <<BareWANDevice, GoodWANDevice>>}
        \cup {<<w>> : w \in WANDevices}
        \cup {<<LANDevice, w>> : w \in WANDevices}

TopLevel ==
    {<<>>,
     <<DeviceElement(LANDeviceType, UdnIGD, <<GoodWANDevice>>, <<>>)>>,
     <<DeviceElement(IGDType, UdnIGD, <<>>, <<>>),
       DeviceElement(IGDType, UdnIGD2, <<GoodWANDevice>>, <<>>)>>}
        \cup {<<DeviceElement(IGDType, UdnIGD, dl, <<>>)>> : dl \in DeviceLists}

Documents == {Document(b, t) : b \in URLBases, t \in TopLevel}

\* The documents a call of probe is run on.
GoodDocument ==
    Document(BaseRoot, <<DeviceElement(IGDType, UdnIGD, <<GoodWANDevice>>, <<>>)>>)

\* The same without URLBase, and with a WANDevice that declares no UDN.
NoBaseDocument == Document(NoUrl, GoodDocument.devices)

NoUdnDocument ==
    Document(BaseRoot,
             <<DeviceElement(IGDType, UdnIGD,
                             <<DeviceElement(WANDeviceType, PyNone, <<>>,
                                             <<Service(CICType, Rooted)>>)>>,
                             <<>>)>>)

ProbeDocuments == {GoodDocument, NoDocument, NoBaseDocument, NoUdnDocument}

DocumentPool == IF env = "device" THEN Documents ELSE ProbeDocuments

\* ---- probe: metrics and the integers probe_metric returns ----

Metrics ==
    <<"TotalBytesReceived", "TotalBytesSent",
      "TotalPacketsReceived", "TotalPacketsSent">>

MetricSet == {Metrics[i] : i \in 1..Len(Metrics)}

\* A Python int, written h * 2^32 + m * 2^16 + l with 0 <= m, l < 2^16:
\* the machine integers of the checker are narrower than the values here.
PyInt(h, m, l) == [h |-> h, m |-> m, l |-> l]

Limb == 65536

Zero == PyInt(0, 0, 0)

MinusOne == PyInt(-1, Limb - 1, Limb - 1)

MinInt32 == PyInt(-1, Limb \div 2, 0)

MaxUInt32 == PyInt(0, Limb - 1, Limb - 1)

TwoTo32 == PyInt(1, 0, 0)

BelowMinusTwoTo32 == PyInt(-2, Limb - 1, Limb - 1)

\* What int(...) in probe_metric may give: the text is the gateway's.
RawValues == {Zero, MinusOne, MinInt32, MaxUInt32, TwoTo32, BelowMinusTwoTo32}

\* value < 0
IsNegative(v) == v.h < 0

\* value + 2 ** 32
PlusTwoTo32(v) == [v EXCEPT !.h = @ + 1]

\* The mutant correction: also applied to zero.
CorrectedNonPositive(v) ==
    IF IsNegative(v) \/ v = Zero THEN PlusTwoTo32(v) ELSE v

\* if value < 0: value += 2 ** 32
Corrected(v) == IF IsNegative(v) THEN PlusTwoTo32(v) ELSE v

\* One line of the result of probe: metric name, udn label and value.
Sample(metric, udn, value) ==
    [name |-> <<"igd_WANDevice_1_WANCommonInterfaceConfig_1_", metric>>,
     udn |-> udn, value |-> value]

IdleDevice ==
    /\ doc = NoDocument
    /\ dev_ret = DevicePending

IdleProbe ==
    /\ mpc = [m \in MetricSet |-> "idle"]
    /\ raw = [m \in MetricSet |-> Zero]
    /\ completed = <<>>
    /\ pk = 0
    /\ presult = <<>>
    /\ pexc = FALSE
    /\ pret = <<>>

\* No Collector has been constructed.
IdleNexsan ==
    /\ opstats = <<>>
    /\ families = <<>>
    /\ cpc = 0
    /\ ncalls = 0
    /\ yielded = <<>>

\* The state every specification starts from, before its own choices.
Idle ==
    /\ call_dgram = NoDatagram
    /\ call_buf = <<>>
    /\ call_ret = Pending
    /\ n = [f \in Families |-> 0]
    /\ result = [f \in Families |-> <<>>]
    /\ dgram = [f \in Families |-> NoDatagram]
    /\ buf = [f \in Families |-> <<>>]
    /\ settimeouts = [f \in Families |-> 0]
    /\ recvs = [f \in Families |-> 0]
    /\ tracebacks = [f \in Families |-> 0]
    /\ recvd = [f \in Families |-> "none"]
    /\ sent = [f \in Families |-> <<>>]
    /\ wret = [f \in Families |-> <<>>]
    /\ collected = <<>>
    /\ exc = FALSE
    /\ ret = <<>>

\* The state of a specification in which no discovery takes place.
NoDiscovery ==
    /\ Idle
    /\ pc = [f \in Families |-> "idle"]
    /\ net = [f \in Families |-> 0]
    /\ sock = [f \in Families |-> NoSocket]
    /\ spc = "idle"

\* The state of a specification in which no probe takes place.
NoProbe ==
    /\ IdleDevice
    /\ IdleProbe
    /\ ppc = "idle"

(* ----------------------- direct call of search_result ----------------- *)

InitParse ==
    /\ Idle
    /\ NoProbe
    /\ IdleNexsan
    /\ env = "any"
    /\ pc = [f \in Families |-> "idle"]
    /\ net = [f \in Families |-> 0]
    /\ sock = [f \in Families |-> NoSocket]
    /\ spc = "direct"

\* The caller hands one datagram's bytes to search_result.
Call ==
    /\ call_buf = <<>>
    /\ \E d \in Pool :
        /\ call_dgram' = d
        /\ call_buf' = Wire(d)
    /\ UNCHANGED <<otherVars, call_ret, env, sock, workerVars, searchVars>>

\* search_result runs to its return or its raise.
Return ==
    /\ call_buf # <<>>
    /\ ~call_ret.done
    /\ call_ret' = Outcome(search_result(call_buf))
    /\ UNCHANGED <<otherVars, call_dgram, call_buf, env, sock, workerVars, searchVars>>

NextParse == Call \/ Return

SpecParse == InitParse /\ [][NextParse]_vars

(* ------------------------------ search_socket ------------------------- *)

\* MulticastAddr that ignores the family of the socket.
MulticastAddrIPv4Only(f) == "239.255.255.250"

MulticastAddr(f) == IF f = "AF_INET6" THEN "ff02::c" ELSE "239.255.255.250"

MulticastHost(f) == IF f = "AF_INET6" THEN "[ff02::c]" ELSE MulticastAddr(f)

\* The search request and its destination, as given to sock.sendto.
SearchMsg(f) == [host |-> MulticastHost(f), addr |-> MulticastAddr(f), port |-> SsdpPort]

\* sock.sendto succeeds; result = [] and the loop is entered.
SendTo(f) ==
    /\ pc[f] = "send"
    /\ sock[f].state = "open"
    /\ sent' = [sent EXCEPT ![f] = Append(@, SearchMsg(f))]
    /\ pc' = [pc EXCEPT ![f] = "loop"]
    /\ UNCHANGED <<n, result, dgram, buf, settimeouts, recvs, tracebacks, recvd, wret, net>>
    /\ UNCHANGED <<otherVars, callVars, env, sock, searchVars>>

\* sock.sendto raises (OSError): search_socket raises.
SendToFails(f) ==
    /\ pc[f] = "send"
    /\ pc' = [pc EXCEPT ![f] = "raised"]
    /\ UNCHANGED <<n, result, dgram, buf, settimeouts, recvs, tracebacks, recvd, sent, wret, net>>
    /\ UNCHANGED <<otherVars, callVars, env, sock, searchVars>>

\* InRange of a loop that has no iteration cap (while True).
InRangeForever(k) == TRUE

\* for n in range(100): whether the loop has an iteration left after k.
InRange(k) == k < IterCap

\* InnerTry without the except clause: the exception of search_result
\* leaves search_socket.
InnerTryNoExcept(res, tb, r) ==
    [pc |-> IF r.raised THEN "raised" ELSE "loop",
     result |-> IF r.raised THEN res ELSE Append(res, r.value),
     tracebacks |-> tb]

\* The inner try of one iteration, on the outcome r of search_result:
\* result.append(...), or, under the bare except, traceback.print_exc().
\* Either way the loop goes on.
InnerTry(res, tb, r) ==
    [pc |-> "loop",
     result |-> IF r.raised THEN res ELSE Append(res, r.value),
     tracebacks |-> IF r.raised THEN tb + 1 ELSE tb]

\* One iteration of the loop in which recvfrom returns a datagram:
\* settimeout, recvfrom, then the inner try.
Receive(f) ==
    /\ pc[f] = "loop"
    /\ InRange(n[f])
    /\ net[f] > 0
    /\ sock[f].state = "open"
    /\ \E d \in Pool :
        LET t == InnerTry(result[f], tracebacks[f], search_result(Wire(d)))
        IN  /\ dgram' = [dgram EXCEPT ![f] = d]
            /\ buf' = [buf EXCEPT ![f] = Wire(d)]
            /\ result' = [result EXCEPT ![f] = t.result]
            /\ tracebacks' = [tracebacks EXCEPT ![f] = t.tracebacks]
            /\ pc' = [pc EXCEPT ![f] = t.pc]
    /\ settimeouts' = [settimeouts EXCEPT ![f] = @ + 1]
    /\ recvs' = [recvs EXCEPT ![f] = @ + 1]
    /\ recvd' = [recvd EXCEPT ![f] = "data"]
    /\ net' = [net EXCEPT ![f] = @ - 1]
    /\ n' = [n EXCEPT ![f] = @ + 1]
    /\ UNCHANGED <<sent, wret>>
    /\ UNCHANGED <<otherVars, callVars, env, sock, searchVars>>

\* recvfrom raises an error that is not socket.timeout: it is not caught,
\* search_socket raises.
ReceiveFails(f) ==
    /\ pc[f] = "loop"
    /\ InRange(n[f])
    /\ settimeouts' = [settimeouts EXCEPT ![f] = @ + 1]
    /\ recvs' = [recvs EXCEPT ![f] = @ + 1]
    /\ recvd' = [recvd EXCEPT ![f] = "error"]
    /\ pc' = [pc EXCEPT ![f] = "raised"]
    /\ UNCHANGED <<n, result, dgram, buf, tracebacks, sent, wret, net>>
    /\ UNCHANGED <<otherVars, callVars, env, sock, searchVars>>

\* LoopExit with the except clause for socket.timeout left out.
LoopExitTimeoutRaises(f) ==
    /\ pc[f] = "loop"
    /\ InRange(n[f]) => sock[f].state = "open"
    /\ settimeouts' = [settimeouts EXCEPT ![f] = IF InRange(n[f]) THEN @ + 1 ELSE @]
    /\ recvs' = [recvs EXCEPT ![f] = IF InRange(n[f]) THEN @ + 1 ELSE @]
    /\ recvd' = [recvd EXCEPT ![f] = IF InRange(n[f]) THEN "timeout" ELSE @]
    /\ wret' = [wret EXCEPT ![f] = IF InRange(n[f]) THEN @ ELSE result[f]]
    /\ pc' = [pc EXCEPT ![f] = IF InRange(n[f]) THEN "raised" ELSE "done"]
    /\ UNCHANGED <<n, result, dgram, buf, tracebacks, sent, net>>
    /\ UNCHANGED <<otherVars, callVars, env, sock, searchVars>>

\* The loop ends and search_socket returns result: settimeout, then recvfrom
\* raises socket.timeout (break); or range(100) is exhausted.
LoopExit(f) ==
    /\ pc[f] = "loop"
    /\ InRange(n[f]) => sock[f].state = "open"
    /\ settimeouts' = [settimeouts EXCEPT ![f] = IF InRange(n[f]) THEN @ + 1 ELSE @]
    /\ recvs' = [recvs EXCEPT ![f] = IF InRange(n[f]) THEN @ + 1 ELSE @]
    /\ recvd' = [recvd EXCEPT ![f] = IF InRange(n[f]) THEN "timeout" ELSE @]
    /\ wret' = [wret EXCEPT ![f] = result[f]]
    /\ pc' = [pc EXCEPT ![f] = "done"]
    /\ UNCHANGED <<n, result, dgram, buf, tracebacks, sent, net>>
    /\ UNCHANGED <<otherVars, callVars, env, sock, searchVars>>

Worker(f) == SendTo(f) \/ SendToFails(f) \/ Receive(f) \/ ReceiveFails(f) \/ LoopExit(f)

\* search_socket called on one open socket of either family.
InitSocket ==
    /\ Idle
    /\ NoProbe
    /\ IdleNexsan
    /\ env = "socket"
    /\ spc = "direct"
    /\ \E f \in Families :
        /\ sock = [g \in Families |-> IF g = f THEN OpenSocket ELSE NoSocket]
        /\ net = [g \in Families |-> IF g = f THEN MaxDatagrams ELSE 0]
        /\ pc = [g \in Families |-> IF g = f THEN "send" ELSE "idle"]

NextSocket == \E f \in Families : Worker(f)

SpecSocket == InitSocket /\ [][NextSocket]_vars

\* The same call under a flood: the network delivers more datagrams than
\* the loop has iterations.
InitFlood ==
    /\ Idle
    /\ NoProbe
    /\ IdleNexsan
    /\ env = "flood"
    /\ spc = "direct"
    /\ \E f \in Families :
        /\ sock = [g \in Families |-> IF g = f THEN OpenSocket ELSE NoSocket]
        /\ net = [g \in Families |-> IF g = f THEN IterCap + 1 ELSE 0]
        /\ pc = [g \in Families |-> IF g = f THEN "send" ELSE "idle"]

SpecFlood == InitFlood /\ [][NextSocket]_vars

(* --------------------------------- search ----------------------------- *)

\* The order of the list sockets: AF_INET6 is appended first.
Sockets == <<"AF_INET6", "AF_INET">>

\* Finished for an executor shut down with wait=False.
FinishedNoWait(f) == TRUE

Finished(f) == pc[f] \in {"done", "raised", "cancelled"}

\* socket.socket(AF_INET6, ...) succeeds and is entered into the ExitStack.
CreateSocket6 ==
    /\ spc = "socket6"
    /\ sock' = [sock EXCEPT !["AF_INET6"] = OpenSocket]
    /\ spc' = "socket4"
    /\ UNCHANGED <<otherVars, callVars, env, workerVars, collected, exc, ret>>

\* socket.socket(AF_INET, ...) succeeds and is entered into the ExitStack.
CreateSocket4 ==
    /\ spc = "socket4"
    /\ sock' = [sock EXCEPT !["AF_INET"] = OpenSocket]
    /\ spc' = "reuseaddr"
    /\ UNCHANGED <<otherVars, callVars, env, workerVars, collected, exc, ret>>

\* Creating either socket raises (the family is not supported): the
\* exception leaves the with block.
CreateSocketFails ==
    /\ spc \in {"socket6", "socket4"}
    /\ exc' = TRUE
    /\ spc' = "unwind"
    /\ UNCHANGED <<otherVars, callVars, env, sock, workerVars, collected, ret>>

\* First iteration of "for s in sockets": s is sockets[0];
\* s.setsockopt(SOL_SOCKET, SO_REUSEADDR, 1).
SetReuseAddr ==
    /\ spc = "reuseaddr"
    /\ sock' = [sock EXCEPT ![Sockets[1]].reuseaddr = TRUE]
    /\ spc' = "v6only"
    /\ UNCHANGED <<otherVars, callVars, env, workerVars, collected, exc, ret>>

\* s.family == AF_INET6 holds for sockets[0]:
\* s.setsockopt(IPPROTO_IPV6, IPV6_V6ONLY, 1).
SetV6Only ==
    /\ spc = "v6only"
    /\ sock' = [sock EXCEPT ![Sockets[1]].v6only = TRUE]
    /\ spc' = "submit"
    /\ UNCHANGED <<otherVars, callVars, env, workerVars, collected, exc, ret>>

\* Either setsockopt raises.
SetSockOptFails ==
    /\ spc \in {"reuseaddr", "v6only"}
    /\ exc' = TRUE
    /\ spc' = "unwind"
    /\ UNCHANGED <<otherVars, callVars, env, sock, workerVars, collected, ret>>

\* Still inside the first iteration: the executor is entered and ex.map
\* submits search_socket for every socket of the list.
Submit ==
    /\ spc = "submit"
    /\ pc' = [f \in Families |-> "queued"]
    /\ spc' = "map"
    /\ UNCHANGED <<n, result, dgram, buf, settimeouts, recvs, tracebacks, recvd, sent, wret, net>>
    /\ UNCHANGED <<otherVars, callVars, env, sock, collected, exc, ret>>

\* An executor thread takes the work item and starts search_socket.
Start(f) ==
    /\ pc[f] = "queued"
    /\ pc' = [pc EXCEPT ![f] = "send"]
    /\ UNCHANGED <<n, result, dgram, buf, settimeouts, recvs, tracebacks, recvd, sent, wret, net>>
    /\ UNCHANGED <<otherVars, callVars, env, sock, searchVars>>

\* chain with the later lists first.
RECURSIVE chain_reversed(_)
chain_reversed(lists) ==
    IF lists = <<>> THEN <<>> ELSE chain_reversed(Tail(lists)) \o Head(lists)

\* itertools.chain(*lists): the lists one after the other.
RECURSIVE chain(_)
chain(lists) == IF lists = <<>> THEN <<>> ELSE Head(lists) \o chain(Tail(lists))

\* The family whose result the iterator of ex.map yields next: the futures
\* are yielded in the order of sockets.
NextFuture == Sockets[Len(collected) + 1]

\* The unpacking of ex.map takes the next result; with the last one the
\* chain is built and return leaves the executor block.
MapResult ==
    /\ spc = "map"
    /\ pc[NextFuture] = "done"
    /\ collected' = Append(collected, wret[NextFuture])
    /\ IF Len(collected') = Len(Sockets)
       THEN /\ ret' = chain(collected')
            /\ spc' = "shutdown"
       ELSE /\ ret' = ret
            /\ spc' = "map"
    /\ UNCHANGED <<otherVars, callVars, env, sock, workerVars, exc>>

\* The next future holds an exception: result() raises it; the iterator of
\* ex.map cancels the futures no thread has started; the exception leaves
\* the executor block.
MapRaises ==
    /\ spc = "map"
    /\ pc[NextFuture] = "raised"
    /\ pc' = [f \in Families |-> IF pc[f] = "queued" THEN "cancelled" ELSE pc[f]]
    /\ exc' = TRUE
    /\ spc' = "shutdown"
    /\ UNCHANGED <<n, result, dgram, buf, settimeouts, recvs, tracebacks, recvd, sent, wret, net>>
    /\ UNCHANGED <<otherVars, callVars, env, sock, collected, ret>>

\* ThreadPoolExecutor.__exit__: shutdown(wait=True) returns when every
\* worker has finished.
Shutdown ==
    /\ spc = "shutdown"
    /\ \A f \in Families : Finished(f)
    /\ spc' = "unwind"
    /\ UNCHANGED <<otherVars, callVars, env, sock, workerVars, collected, exc, ret>>

\* Closed when the sockets are closed only after the block ends normally.
ClosedOnReturnOnly(s) ==
    IF s.state = "open" /\ ~exc THEN [s EXCEPT !.state = "closed"] ELSE s

\* The socket after ExitStack.__exit__: every socket that was entered is closed.
Closed(s) == IF s.state = "open" THEN [s EXCEPT !.state = "closed"] ELSE s

\* ExitStack.__exit__, then search returns or raises.
Unwind ==
    /\ spc = "unwind"
    /\ sock' = [f \in Families |-> Closed(sock[f])]
    /\ spc' = IF exc THEN "raised" ELSE "returned"
    /\ UNCHANGED <<otherVars, callVars, env, workerVars, collected, exc, ret>>

Main ==
    \/ CreateSocket6 \/ CreateSocket4 \/ CreateSocketFails
    \/ SetReuseAddr \/ SetV6Only \/ SetSockOptFails
    \/ Submit \/ MapResult \/ MapRaises \/ Shutdown \/ Unwind

Init ==
    /\ Idle
    /\ NoProbe
    /\ IdleNexsan
    /\ env = "search"
    /\ spc = "socket6"
    /\ sock = [f \in Families |-> NoSocket]
    /\ net = [f \in Families |-> MaxDatagrams]
    /\ pc = [f \in Families |-> "idle"]

Next == Main \/ \E f \in Families : Start(f) \/ Worker(f)

Spec == Init /\ [][Next]_vars

(* ------------------------------ probe_device -------------------------- *)

\* probe_device fetches and parses the document and returns the Device,
\* or raises AttributeError where find gave None.
ProbeDevice ==
    /\ ppc \in {"direct", "device"}
    /\ ~dev_ret.done
    /\ dev_ret' = probe_device(doc)
    /\ UNCHANGED <<discoveryVars, doc, probeVars, nexsanVars>>

\* urlopen or ElementTree.parse raises: no document is read.
ProbeDeviceFetchFails ==
    /\ ppc \in {"direct", "device"}
    /\ ~dev_ret.done
    /\ dev_ret' = DeviceRaised
    /\ UNCHANGED <<discoveryVars, doc, probeVars, nexsanVars>>

InitDevice ==
    /\ NoDiscovery
    /\ IdleProbe
    /\ IdleNexsan
    /\ env = "device"
    /\ ppc = "direct"
    /\ doc \in DocumentPool
    /\ dev_ret = DevicePending

NextDevice == ProbeDevice \/ ProbeDeviceFetchFails

SpecDevice == InitDevice /\ [][NextDevice]_vars

(* --------------------------------- probe ------------------------------- *)

\* The work item of metric m no longer runs and never will: it returned,
\* raised, or was cancelled before a thread took it.
MetricFinishedNoWait(m) == TRUE

MetricFinished(m) == mpc[m] \in {"done", "raised", "cancelled"}

\* The mutant order: results are taken last metric first.
NextMetricReversed == Metrics[Len(Metrics) - pk]

\* The metric whose result the iterator of ex.map yields next: results
\* come in the order of the list given to map.
NextMetric == Metrics[pk + 1]

\* The mutant outcome: what was appended is returned whatever happened.
ProbeOutcomeKeepsPartial(e, r) == r

\* What the caller of probe receives when an exception propagates (e) or
\* not, r being the list result.
ProbeOutcome(e, r) == IF e THEN <<>> ELSE r

\* probe_device raised: the exception leaves probe before the executor
\* is created.
ProbeDeviceRaised ==
    /\ ppc = "device"
    /\ dev_ret.done
    /\ dev_ret.raised
    /\ ppc' = "raised"
    /\ pexc' = TRUE
    /\ UNCHANGED <<discoveryVars, deviceVars, mpc, raw, pk, presult, pret, completed, nexsanVars>>

\* ex.map submits the four calls of probe_metric before it yields a result.
ProbeSubmit ==
    /\ ppc = "device"
    /\ dev_ret.done
    /\ ~dev_ret.raised
    /\ mpc' = [m \in MetricSet |-> "queued"]
    /\ ppc' = "map"
    /\ UNCHANGED <<discoveryVars, deviceVars, raw, pk, presult, pexc, pret, completed, nexsanVars>>

\* An executor thread takes the work item of metric m.
MetricStart(m) ==
    /\ mpc[m] = "queued"
    /\ mpc' = [mpc EXCEPT ![m] = "running"]
    /\ UNCHANGED <<discoveryVars, deviceVars, raw, ppc, pk, presult, pexc, pret, completed, nexsanVars>>

\* probe_metric(device.url, m) returns the integer of the response; the
\* request needs an absolute url.
MetricReturn(m) ==
    /\ mpc[m] = "running"
    /\ dev_ret.value.url.origin # ""
    /\ \E v \in RawValues : raw' = [raw EXCEPT ![m] = v]
    /\ mpc' = [mpc EXCEPT ![m] = "done"]
    /\ UNCHANGED <<discoveryVars, deviceVars, ppc, pk, presult, pexc, pret, nexsanVars>>
    /\ completed' = Append(completed, m)

\* probe_metric raises: the request, the parse or int() failed.
MetricRaise(m) ==
    /\ mpc[m] = "running"
    /\ mpc' = [mpc EXCEPT ![m] = "raised"]
    /\ UNCHANGED <<discoveryVars, deviceVars, raw, ppc, pk, presult, pexc, pret, nexsanVars>>
    /\ completed' = Append(completed, m)

\* One turn of the loop: the next result is there, the value is corrected
\* and the line appended.
ProbeTake ==
    /\ ppc = "map"
    /\ pk < Len(Metrics)
    /\ mpc[NextMetric] = "done"
    /\ ~dev_ret.value.udn.isNone
    /\ presult' = Append(presult,
                         Sample(NextMetric, dev_ret.value.udn, Corrected(raw[NextMetric])))
    /\ pk' = pk + 1
    /\ UNCHANGED <<discoveryVars, deviceVars, mpc, raw, ppc, pexc, pret, completed, nexsanVars>>

\* The loop body raises: device.udn is None and None has no encode.  The
\* iterator of ex.map stays suspended, so nothing is cancelled.
ProbeBodyRaises ==
    /\ ppc = "map"
    /\ pk < Len(Metrics)
    /\ mpc[NextMetric] = "done"
    /\ dev_ret.value.udn.isNone
    /\ pexc' = TRUE
    /\ ppc' = "shutdown"
    /\ UNCHANGED <<discoveryVars, deviceVars, mpc, raw, pk, presult, pret, completed, nexsanVars>>

\* The next result is an exception: the iterator of ex.map cancels the
\* work items no thread has taken and re-raises.
ProbeMapRaises ==
    /\ ppc = "map"
    /\ pk < Len(Metrics)
    /\ mpc[NextMetric] = "raised"
    /\ mpc' = [m \in MetricSet |-> IF mpc[m] = "queued" THEN "cancelled" ELSE mpc[m]]
    /\ pexc' = TRUE
    /\ ppc' = "shutdown"
    /\ UNCHANGED <<discoveryVars, deviceVars, raw, pk, presult, pret, completed, nexsanVars>>

\* The iterator is exhausted: the loop ends.
ProbeMapExhausted ==
    /\ ppc = "map"
    /\ pk = Len(Metrics)
    /\ ppc' = "shutdown"
    /\ UNCHANGED <<discoveryVars, deviceVars, mpc, raw, pk, presult, pexc, pret, completed, nexsanVars>>

\* The with statement ends: the executor waits for its work items, then
\* probe returns result or the exception goes on to the caller.
ProbeShutdown ==
    /\ ppc = "shutdown"
    /\ \A m \in MetricSet : MetricFinished(m)
    /\ ppc' = IF pexc THEN "raised" ELSE "returned"
    /\ pret' = ProbeOutcome(pexc, presult)
    /\ UNCHANGED <<discoveryVars, deviceVars, mpc, raw, pk, presult, pexc, completed, nexsanVars>>

ProbeMain ==
    \/ ProbeDevice
    \/ ProbeDeviceFetchFails
    \/ ProbeDeviceRaised
    \/ ProbeSubmit
    \/ ProbeTake
    \/ ProbeBodyRaises
    \/ ProbeMapRaises
    \/ ProbeMapExhausted
    \/ ProbeShutdown

MetricWorker(m) == MetricStart(m) \/ MetricReturn(m) \/ MetricRaise(m)

InitProbe ==
    /\ NoDiscovery
    /\ IdleProbe
    /\ IdleNexsan
    /\ env = "probe"
    /\ ppc = "device"
    /\ doc \in DocumentPool
    /\ dev_ret = DevicePending

NextProbe == ProbeMain \/ \E m \in MetricSet : MetricWorker(m)

SpecProbe == InitProbe /\ [][NextProbe]_vars

(* ---------------------- a call of search or of probe ------------------- *)

\* The exporter calls search(5) or probe(target_url); the two fan-outs
\* never share an executor.
InitCalls == Init \/ InitProbe

NextCalls == Next \/ NextProbe

SpecCalls == InitCalls /\ [][NextCalls]_vars

(* --------------------------- nexsan Collector -------------------------- *)

\* Most root children of a generated opstats document, and most calls of
\* collect on one Collector.
MaxChildren == 2

MaxCalls == 2

\* The metric families of Collector.__init__, in the order of creation.
FamilyNames ==
    <<"nexsan_sys_details", "nexsan_sys_date",
      "nexsan_env_psu_power_good", "nexsan_env_psu_power_watts",
      "nexsan_env_psu_temp_celsius", "nexsan_env_psu_temp_good",
      "nexsan_env_psu_blower_rpm", "nexsan_env_psu_blower_good",
      "nexsan_env_controller_voltage_volts", "nexsan_env_controller_voltage_good",
      "nexsan_env_controller_temp_celsius", "nexsan_env_controller_temp_good",
      "nexsan_env_controller_battery_charge_good",
      "nexsan_env_pod_voltage_volts", "nexsan_env_pod_voltage_good",
      "nexsan_env_pod_temp_celsius", "nexsan_env_pod_temp_good",
      "nexsan_env_pod_front_blower_rpm", "nexsan_env_pod_front_blower_good",
      "nexsan_env_pod_tray_blower_rpm", "nexsan_env_pod_tray_blower_good">>

FamilySet == {FamilyNames[i] : i \in 1..Len(FamilyNames)}

\* The families as __init__ leaves them: no samples.
NewFamilies == [name \in FamilySet |-> <<>>]

\* family.add_metric(labels, value)
add_metric(fams, name, labels, value) ==
    [fams EXCEPT ![name] = Append(@, [labels |-> labels, value |-> value])]

\* The text of an element that reads as the number k; NoText is the None
\* that find or findtext gives for a missing element.
Text(k) == [none |-> FALSE, n |-> k]

NoText == [none |-> TRUE, n |-> 0]

\* An element with an id, a text and a good attribute.
Reading(id, k, good) == [id |-> id, value |-> k, good |-> good]

isgood(elem) == IF elem.good = "yes" THEN 1 ELSE 0

Collected(fams) == [fams |-> fams, raised |-> FALSE]

Raised(fams) == [fams |-> fams, raised |-> TRUE]

\* sys_details is added before int() of a missing date raises TypeError.
collect_sys_details(fams, sd) ==
    LET added == add_metric(fams, "nexsan_sys_details",
                            <<sd.friendly_name, sd.system_name, sd.system_id,
                              sd.firmware_version>>, 1)
    IN  IF sd.date.none THEN Raised(added)
        ELSE Collected(add_metric(added, "nexsan_sys_date", <<>>, sd.date.n))

\* The loops that add a value and its good flag for every reading.
RECURSIVE add_readings(_, _, _, _, _)
add_readings(fams, value_name, good_name, values, readings) ==
    IF readings = <<>> THEN fams
    ELSE LET r == Head(readings)
             one == add_metric(fams, value_name, Append(values, r.id), r.value)
             two == add_metric(one, good_name, Append(values, r.id), isgood(r))
         IN  add_readings(two, value_name, good_name, values, Tail(readings))

RECURSIVE add_batteries(_, _, _)
add_batteries(fams, values, batteries) ==
    IF batteries = <<>> THEN fams
    ELSE add_batteries(
             add_metric(fams, "nexsan_env_controller_battery_charge_good",
                        Append(values, Head(batteries).id), isgood(Head(batteries))),
             values, Tail(batteries))

\* An element paired with the id of its parent (parent_map[...].attrib['id']).
Under(e, parent) == [e |-> e, parent |-> parent]

\* psu.find('./state') is None for a psu without state: isgood raises
\* AttributeError before anything of this psu is added.
collect_psu(fams, p) ==
    LET psu == p.e
        values == <<psu.id, p.parent>>
    IN  IF psu.state.none THEN Raised(fams)
        ELSE LET f1 == add_metric(fams, "nexsan_env_psu_power_good", values, isgood(psu.state))
                 f2 == add_metric(f1, "nexsan_env_psu_power_watts", values, psu.state.power_watt)
                 f3 == add_metric(f2, "nexsan_env_psu_temp_celsius", values, psu.temperature_deg_c.value)
                 f4 == add_metric(f3, "nexsan_env_psu_temp_good", values, isgood(psu.temperature_deg_c))
             IN  Collected(add_readings(f4, "nexsan_env_psu_blower_rpm",
                                        "nexsan_env_psu_blower_good", values, psu.blower_rpm))

collect_controller(fams, c) ==
    LET controller == c.e
        values == <<controller.id, c.parent>>
        f1 == add_readings(fams, "nexsan_env_controller_voltage_volts",
                           "nexsan_env_controller_voltage_good", values, controller.voltage)
        f2 == add_readings(f1, "nexsan_env_controller_temp_celsius",
                           "nexsan_env_controller_temp_good", values, controller.temperature_deg_c)
    IN  add_batteries(f2, values, controller.battery)

collect_pod(fams, p) ==
    LET pod == p.e
        values == <<pod.id, p.parent>>
        f1 == add_readings(fams, "nexsan_env_pod_voltage_volts",
                           "nexsan_env_pod_voltage_good", values, pod.voltage)
        f2 == add_readings(f1, "nexsan_env_pod_temp_celsius",
                           "nexsan_env_pod_temp_good", values, pod.temperature_deg_c)
        f3 == add_readings(f2, "nexsan_env_pod_front_blower_rpm",
                           "nexsan_env_pod_front_blower_good", values, pod.front_panel)
    IN  add_readings(f3, "nexsan_env_pod_tray_blower_rpm",
                     "nexsan_env_pod_tray_blower_good", values, pod.fan_tray)

RECURSIVE collect_psus(_, _)
collect_psus(fams, psus) ==
    IF psus = <<>> THEN Collected(fams)
    ELSE LET r == collect_psu(fams, Head(psus))
         IN  IF r.raised THEN r ELSE collect_psus(r.fams, Tail(psus))

RECURSIVE collect_controllers(_, _)
collect_controllers(fams, cs) ==
    IF cs = <<>> THEN fams
    ELSE collect_controllers(collect_controller(fams, Head(cs)), Tail(cs))

RECURSIVE collect_pods(_, _)
collect_pods(fams, pods) ==
    IF pods = <<>> THEN fams
    ELSE collect_pods(collect_pod(fams, Head(pods)), Tail(pods))

\* env_status.iterfind('.//' + tag): the elements of that tag of every
\* enclosure, in document order, each with its enclosure's id.
iterfind(env_status, tag) ==
    LET encl == env_status.enclosure
    IN  Flatten([i \in 1..Len(encl) |->
                    [j \in 1..Len(encl[i][tag]) |-> Under(encl[i][tag][j], encl[i].id)]])

\* All psus, then all controllers, then all pods.
collect_env_status(fams, env_status) ==
    LET r == collect_psus(fams, iterfind(env_status, "psu"))
    IN  IF r.raised THEN r
        ELSE Collected(collect_pods(
                 collect_controllers(r.fams, iterfind(env_status, "controller")),
                 iterfind(env_status, "pod")))

\* One turn of the loop of collect: dispatch on the tag of the child.
collect_child(fams, child) ==
    IF child.tag = "nexsan_sys_details" THEN collect_sys_details(fams, child)
    ELSE IF child.tag = "nexsan_env_status" THEN collect_env_status(fams, child)
    ELSE Collected(fams)

\* yield from the families, in the order of self.__dict__.
yield_from(fams) ==
    [i \in 1..Len(FamilyNames) |-> [name |-> FamilyNames[i], samples |-> fams[FamilyNames[i]]]]

\* ---- the opstats documents a Collector is built on ----

SysDetails ==
    [tag |-> "nexsan_sys_details", friendly_name |-> "array1",
     system_name |-> "SATABeast", system_id |-> "0123456",
     firmware_version |-> "S011", date |-> Text(1700000000)]

SysDetailsNoDate == [SysDetails EXCEPT !.date = NoText]

State(good, watts) == [none |-> FALSE, good |-> good, power_watt |-> watts]

NoState == [none |-> TRUE, good |-> "no", power_watt |-> 0]

Psu(id, state, blowers) ==
    [id |-> id, state |-> state, temperature_deg_c |-> Reading("", 35, "yes"),
     blower_rpm |-> blowers]

GoodPsu == Psu("0", State("yes", 420), <<Reading("0", 5400, "yes"), Reading("1", 0, "no")>>)

BadPsu == Psu("1", NoState, <<>>)

Controller0 ==
    [id |-> "0", voltage |-> <<Reading("12V", 12, "yes")>>,
     temperature_deg_c |-> <<Reading("cpu", 48, "no")>>,
     battery |-> <<[id |-> "0", good |-> "yes"]>>]

Pod0 ==
    [id |-> "0", voltage |-> <<Reading("5V", 5, "yes")>>,
     temperature_deg_c |-> <<Reading("0", 30, "yes")>>,
     front_panel |-> <<Reading("0", 3000, "yes")>>,
     fan_tray |-> <<Reading("0", 2900, "yes"), Reading("1", 2800, "no")>>]

Enclosure(id, psus, controllers, pods) ==
    [id |-> id, psu |-> psus, controller |-> controllers, pod |-> pods]

EnvStatus(enclosures) == [tag |-> "nexsan_env_status", enclosure |-> enclosures]

EnvOne == EnvStatus(<<Enclosure("0", <<GoodPsu>>, <<Controller0>>, <<Pod0>>)>>)

EnvTwo ==
    EnvStatus(<<Enclosure("0", <<GoodPsu>>, <<>>, <<Pod0>>),
                Enclosure("1", <<GoodPsu>>, <<Controller0>>, <<>>)>>)

EnvBadPsu == EnvStatus(<<Enclosure("0", <<GoodPsu, BadPsu>>, <<Controller0>>, <<>>)>>)

VolumeStats == [tag |-> "nexsan_volume_stats"]

Children == {SysDetails, SysDetailsNoDate, EnvOne, EnvTwo, EnvBadPsu, VolumeStats}

OpstatsDocuments == SeqsUpTo(Children, MaxChildren)

\* ---- Collector.collect ----

\* The mutant start: the families are emptied when a call begins.
CollectStartResets ==
    /\ cpc = 0
    /\ ncalls < MaxCalls
    /\ cpc' = 1
    /\ families' = NewFamilies
    /\ UNCHANGED <<discoveryVars, deviceVars, probeVars, opstats, ncalls, yielded>>

\* The registry iterates a new call of collect(): the loop begins.
CollectStart ==
    /\ cpc = 0
    /\ ncalls < MaxCalls
    /\ cpc' = 1
    /\ UNCHANGED <<discoveryVars, deviceVars, probeVars, opstats, families, ncalls, yielded>>

\* One child of the root is collected.
CollectChild ==
    /\ cpc \in 1..Len(opstats)
    /\ LET r == collect_child(families, opstats[cpc])
       IN  /\ ~r.raised
           /\ families' = r.fams
    /\ cpc' = cpc + 1
    /\ UNCHANGED <<discoveryVars, deviceVars, probeVars, opstats, ncalls, yielded>>

\* Collecting a child raises: the call ends, what it added stays.
CollectChildRaises ==
    /\ cpc \in 1..Len(opstats)
    /\ LET r == collect_child(families, opstats[cpc])
       IN  /\ r.raised
           /\ families' = r.fams
    /\ cpc' = 0
    /\ ncalls' = ncalls + 1
    /\ yielded' = <<>>
    /\ UNCHANGED <<discoveryVars, deviceVars, probeVars, opstats>>

\* The loop is over: every family is yielded with the samples it holds.
CollectYield ==
    /\ cpc = Len(opstats) + 1
    /\ yielded' = yield_from(families)
    /\ cpc' = 0
    /\ ncalls' = ncalls + 1
    /\ UNCHANGED <<discoveryVars, deviceVars, probeVars, opstats, families>>

\* Collector(opstats) has been constructed; collect has not been called.
InitNexsan ==
    /\ NoDiscovery
    /\ NoProbe
    /\ env = "nexsan"
    /\ opstats \in OpstatsDocuments
    /\ families = NewFamilies
    /\ cpc = 0
    /\ ncalls = 0
    /\ yielded = <<>>

NextNexsan == CollectStart \/ CollectChild \/ CollectChildRaises \/ CollectYield

SpecNexsan == InitNexsan /\ [][NextNexsan]_vars

(* ------------------------------- properties --------------------------- *)

\* The datagram is a well-formed discovery response: status line
\* "HTTP/1.1 200 OK", header lines of the form name: value, and the blank
\* line that ends the header block.
WellFormed(d) ==
    /\ d.status = StatusOK
    /\ d.term
    /\ \A i \in 1..Len(d.headers) : d.headers[i].colon

HasLocationHeader(d) == \E i \in 1..Len(d.headers) : d.headers[i] \in LocationLines

\* The URL of the (first) Location header of d, as the peer wrote it.
LocationOf(d) ==
    LET i == CHOOSE i \in 1..Len(d.headers) :
                 /\ d.headers[i] \in LocationLines
                 /\ \A j \in 1..(i - 1) : d.headers[j] \notin LocationLines
    IN  d.headers[i].value

\* The status line of d carries the status code 200.
DeclaresStatus200(d) == d.status \in {StatusOK, StatusNoReason}

\* The header block of d holds a non-empty line without a colon.
HasBareLine(d) == \E i \in 1..Len(d.headers) : ~d.headers[i].colon

\* The step is an iteration of f's loop in which a datagram was received.
ReceivedIn(f) == n'[f] = n[f] + 1

Other(f) == IF f = "AF_INET6" THEN "AF_INET" ELSE "AF_INET6"

\* C1: in every step of search_socket that adds an entry to result, the
\* datagram just received has status code 200 and a Location header.
C1_OnlyLocatedDatagramsContribute ==
    [][\A f \in Families :
          result'[f] # result[f] =>
              DeclaresStatus200(dgram'[f]) /\ HasLocationHeader(dgram'[f])]_vars

\* C2: search_result raises for every datagram whose header block holds a
\* non-empty line without a colon.
C2_BareLineFailsFramer ==
    (call_ret.done /\ HasBareLine(call_dgram)) => call_ret.raised

\* C3: an iteration that receives a datagram never ends or fails
\* search_socket: when search_result raises, the failure is printed, result
\* is kept and the loop goes on; a well-formed datagram with a Location
\* header has its URL appended, whatever failed before it.
C3_ParseFailureNeverStopsLoop ==
    [][\A f \in Families :
          ReceivedIn(f) =>
              /\ pc'[f] = "loop"
              /\ search_result(buf'[f]).raised =>
                     /\ result'[f] = result[f]
                     /\ tracebacks'[f] = tracebacks[f] + 1
              /\ (WellFormed(dgram'[f]) /\ HasLocationHeader(dgram'[f])) =>
                     result'[f] = Append(result[f], PyStr(LocationOf(dgram'[f])))]_vars

\* A well-formed datagram was received after a parse failure, and its URL
\* is the last entry of result.
C3_Witness ==
    \E f \in Families :
        /\ tracebacks[f] > 0
        /\ pc[f] = "loop"
        /\ WellFormed(dgram[f]) /\ HasLocationHeader(dgram[f])
        /\ result[f] # <<>>
        /\ result[f][Len(result[f])] = PyStr(LocationOf(dgram[f]))

\* C4: for every well-formed response with a Location header, search_result
\* returns the URL of that header (of the first, when there are several),
\* whatever the case of the name and whatever headers surround it.
C4_WellFormedLocationReturned ==
    (call_ret.done /\ WellFormed(call_dgram) /\ HasLocationHeader(call_dgram)) =>
        /\ ~call_ret.raised
        /\ call_ret.value = PyStr(LocationOf(call_dgram))

\* search_result has returned on a response whose upper-case LOCATION
\* header follows another header and whose body looks like a header.
C4_Witness ==
    /\ call_ret.done
    /\ call_dgram = Datagram(StatusOK, <<Server, LocB>>, TRUE, WireLine(LocB) \o CRLF)
    /\ call_ret.value = PyStr(UrlB)

\* C5: search_socket makes at most 100 receive attempts and holds at most
\* 100 entries, also under a flood; and it ends, because every step of the
\* loop either leaves the loop or uses up one of its 100 iterations.
C5_FloodTerminates ==
    [][\A f \in Families :
          /\ recvs'[f] <= IterCap
          /\ n'[f] <= IterCap
          /\ Len(result'[f]) <= IterCap
          /\ Len(wret'[f]) <= IterCap
          /\ (pc[f] = "loop" /\ pc'[f] = "loop") => n'[f] = n[f] + 1
          /\ pc[f] \in {"done", "raised"} => pc'[f] = pc[f]]_vars

\* The loop ran out of iterations under a flood of well-formed and
\* malformed datagrams, and search_socket returned.
C5_Witness ==
    \E f \in Families :
        /\ pc[f] = "done"
        /\ recvs[f] = IterCap
        /\ net[f] > 0
        /\ tracebacks[f] > 0
        /\ Len(wret[f]) + tracebacks[f] = IterCap
        /\ wret[f] # <<>>

\* C6: a receive timeout ends search_socket with a return of exactly the
\* entries accumulated (none when nothing was received), and settimeout
\* has been called once for every receive attempt.
C6_TimeoutIsNormalEnd ==
    [][\A f \in Families :
          /\ (pc[f] = "loop" /\ pc'[f] # "loop" /\ recvd'[f] = "timeout") =>
                 /\ pc'[f] = "done"
                 /\ result'[f] = result[f]
                 /\ wret'[f] = result[f]
                 /\ (n[f] = 0 => wret'[f] = <<>>)
          /\ settimeouts'[f] = recvs'[f]]_vars

\* search_socket returned on a timeout after it had collected entries.
C6_Witness ==
    \E f \in Families :
        /\ pc[f] = "done"
        /\ recvd[f] = "timeout"
        /\ n[f] > 0
        /\ wret[f] # <<>>
        /\ settimeouts[f] = n[f] + 1

\* C7: search returns the IPv6 worker's list followed by the IPv4
\* worker's list; each worker returns its result, and result only ever
\* grows by one entry at its end.
C7_FamilyOrder ==
    [][/\ spc' = "returned" => ret' = wret'["AF_INET6"] \o wret'["AF_INET"]
       /\ \A f \in Families :
             /\ pc'[f] = "done" => wret'[f] = result'[f]
             /\ \/ result'[f] = result[f]
                \/ /\ ReceivedIn(f)
                   /\ Len(result'[f]) = Len(result[f]) + 1
                   /\ SubSeq(result'[f], 1, Len(result[f])) = result[f]]_vars

\* search returned, both families found something and the IPv4 worker
\* returned different entries than the IPv6 worker.
C7_Witness ==
    /\ spc = "returned"
    /\ wret["AF_INET6"] # <<>>
    /\ wret["AF_INET"] # <<>>
    /\ wret["AF_INET6"] \o wret["AF_INET"] # wret["AF_INET"] \o wret["AF_INET6"]

\* C8: when exactly one family's worker fails, search returns the other
\* family's results.
C8_FailureIsolatedPerFamily ==
    \A f \in Families :
        (spc \in {"returned", "raised"} /\ pc[f] = "raised" /\ pc[Other(f)] = "done") =>
            /\ spc = "returned"
            /\ ret = wret[Other(f)]

\* C9: a socket on which the search datagram has been sent has address
\* reuse enabled, and the IPv6 socket has IPv6-only set.
C9_OptionsSetBeforeSend ==
    \A f \in Families :
        sent[f] # <<>> =>
            /\ sock[f].reuseaddr
            /\ f = "AF_INET6" => sock[f].v6only

\* C10: when search has returned or raised, no socket is open.
C10_SocketsClosedOnExit ==
    spc \in {"returned", "raised"} => \A f \in Families : sock[f].state # "open"

\* search raised after a worker failed, with both sockets closed.
C10_Witness ==
    /\ spc = "raised"
    /\ \E f \in Families : pc[f] = "raised"
    /\ \A f \in Families : sock[f].state = "closed"


\* C16: search_socket gives at most one datagram to sendto, it has done so
\* before any receive attempt, and the datagram goes to the multicast group
\* of the socket's family on port 1900.
C16_OneSearchDatagram ==
    \A f \in Families :
        /\ Len(sent[f]) <= 1
        /\ (recvs[f] > 0 \/ pc[f] \in {"loop", "done"}) => Len(sent[f]) = 1
        /\ \A i \in 1..Len(sent[f]) :
              /\ sent[f][i].addr = (IF f = "AF_INET6" THEN "ff02::c" ELSE "239.255.255.250")
              /\ sent[f][i].port = 1900

\* search_socket on the IPv6 socket returned on a timeout after a parse
\* failure, with one datagram sent.
C16_Witness ==
    /\ pc["AF_INET6"] = "done"
    /\ tracebacks["AF_INET6"] > 0
    /\ recvd["AF_INET6"] = "timeout"
    /\ Len(sent["AF_INET6"]) = 1

\* C18: every send and every receive attempt of a worker happens on an
\* open socket, and a socket is closed only when its worker is not running.
C18_NoCloseWhileWorkerRuns ==
    [][\A f \in Families :
          /\ (Len(sent'[f]) # Len(sent[f]) \/ recvs'[f] # recvs[f]) =>
                 (sock[f].state = "open" /\ sock'[f].state = "open")
          /\ sock'[f].state = "closed" => pc'[f] \notin {"queued", "send", "loop"}]_vars

\* search closed both sockets after both workers had received datagrams.
C18_Witness ==
    /\ spc \in {"returned", "raised"}
    /\ \A f \in Families : sock[f].state = "closed" /\ recvs[f] > 1


(* ----------------------- properties of probe_device -------------------- *)

DeviceReturned == dev_ret.done /\ ~dev_ret.raised

HasWANDevice(d) ==
    IsIGD(d) /\ \E j \in 1..Len(d.deviceList) : IsWANDevice(d.deviceList[j])

IsCIC(sv) == sv.serviceType = CICType

\* The descent of the document: the first InternetGatewayDevice holding a
\* WANDevice, its first WANDevice, that device's first
\* WANCommonInterfaceConfig service.
DescentTop(st) == Head(SelectSeq(st.devices, HasWANDevice))

DescentWAN(st) == Head(SelectSeq(DescentTop(st).deviceList, IsWANDevice))

DescentService(st) == Head(SelectSeq(DescentWAN(st).serviceList, IsCIC))

\* Every step of the descent finds its node, control URL included.
DescentComplete(st) ==
    /\ \E i \in 1..Len(st.devices) : HasWANDevice(st.devices[i])
    /\ \E k \in 1..Len(DescentWAN(st).serviceList) : IsCIC(DescentWAN(st).serviceList[k])
    /\ Truthy(DescentService(st).controlURL)

IsSuffix(p, q) ==
    Len(p) <= Len(q) /\ SubSeq(q, Len(q) - Len(p) + 1, Len(q)) = p

\* C13: whenever probe_device returns a Device, every step of the descent
\* found its node (InternetGatewayDevice, WANDevice, WANCommonInterfaceConfig
\* service with a control URL), and the Device has a udn and a url.
C13_MissingNodeFails ==
    DeviceReturned =>
        /\ DescentComplete(doc)
        /\ ~dev_ret.value.udn.isNone
        /\ Truthy(dev_ret.value.url)

\* C14: whenever probe_device returns a Device for a document whose descent
\* is complete, Device.url is an absolute URL, also when the document has no
\* URLBase element and the control URL is a relative path.
C14_UrlIsAbsolute ==
    (DeviceReturned /\ DescentComplete(doc)) =>
        /\ ~dev_ret.value.url.none
        /\ dev_ret.value.url.origin # ""

\* The top-level InternetGatewayDevice and the nested WANDevice declare
\* different UDNs, and the service declares a control URL.
C15_Case ==
    /\ DescentComplete(doc)
    /\ ~DescentTop(doc).UDN.isNone
    /\ ~DescentWAN(doc).UDN.isNone
    /\ DescentTop(doc).UDN # DescentWAN(doc).UDN

\* The url is the control URL of the service: as written when it is
\* absolute or the document has no URLBase, else under the URLBase.
C15_UrlOfService ==
    LET c == DescentService(doc).controlURL
        u == dev_ret.value.url
    IN  /\ ~u.none
        /\ IsSuffix(c.path, u.path)
        /\ u.origin = (IF c.origin # "" THEN c.origin
                       ELSE IF doc.URLBase.none THEN "" ELSE doc.URLBase.origin)

\* C15 as stated: in that case the udn of the returned Device is the UDN of
\* the top-level InternetGatewayDevice and its url is the control URL of the
\* WANCommonInterfaceConfig service of the nested WANDevice.
C15_UdnOfTopLevelDevice ==
    (DeviceReturned /\ C15_Case) =>
        /\ dev_ret.value.udn = DescentTop(doc).UDN
        /\ C15_UrlOfService

\* C15 amended: in that case the udn of the returned Device is the UDN of
\* the nested WANDevice, never that of the top-level InternetGatewayDevice,
\* and its url is the control URL of the WANCommonInterfaceConfig service
\* of the nested WANDevice.
C15_UdnOfWANDevice ==
    (DeviceReturned /\ C15_Case) =>
        /\ dev_ret.value.udn = DescentWAN(doc).UDN
        /\ dev_ret.value.udn # DescentTop(doc).UDN
        /\ C15_UrlOfService

C15_Witness ==
    /\ DeviceReturned
    /\ C15_Case
    /\ doc.URLBase = BaseRoot
    /\ dev_ret.value = Device(UdnWAN, Url(Origin, Rooted.path))


(* -------------------------- properties of probe ------------------------ *)

\* v denotes an integer: its two low limbs are digits.
IsPyInt(v) == v.m \in 0..(Limb - 1) /\ v.l \in 0..(Limb - 1)

\* 0 <= v <= 2^32 - 1
InUInt32(v) == IsPyInt(v) /\ v.h = 0

\* -2^32 <= v <= 2^32 - 1
WithinOneWrap(v) == IsPyInt(v) /\ v.h \in {-1, 0}

\* e = v if v >= 0, e = v + 2^32 otherwise.
IsCorrectionOf(e, v) ==
    /\ e.m = v.m
    /\ e.l = v.l
    /\ e.h = (IF v.h >= 0 THEN v.h ELSE v.h + 1)

\* The samples probe has emitted so far, in the list or to the caller.
Emitted == IF ppc = "returned" THEN pret ELSE presult

\* C11 as stated: every emitted sample value equals v if v >= 0 and
\* v + 2^32 otherwise, v being the raw integer of the query of its metric,
\* and the emitted value always lies in [0, 2^32 - 1].
C11_ValueAlwaysInRange ==
    \A i \in 1..Len(Emitted) :
        /\ IsCorrectionOf(Emitted[i].value, raw[Metrics[i]])
        /\ InUInt32(Emitted[i].value)

\* C11 amended: every emitted sample value equals v if v >= 0 and v + 2^32
\* otherwise (2^32 added at most once), and it lies in [0, 2^32 - 1] exactly
\* when -2^32 <= v <= 2^32 - 1.
C11_ValueCorrectedOnce ==
    \A i \in 1..Len(Emitted) :
        /\ IsCorrectionOf(Emitted[i].value, raw[Metrics[i]])
        /\ InUInt32(Emitted[i].value) <=> WithinOneWrap(raw[Metrics[i]])

C11_Witness ==
    /\ ppc = "returned"
    /\ raw[Metrics[1]] = MinusOne
    /\ pret[1].value = MaxUInt32
    /\ raw[Metrics[2]] = TwoTo32
    /\ pret[2].value = TwoTo32
    /\ raw[Metrics[3]] = MinInt32
    /\ pret[3].value = PyInt(0, Limb \div 2, 0)
    /\ raw[Metrics[4]] = BelowMinusTwoTo32
    /\ pret[4].value = MinusOne

ProbeEnded == ppc \in {"returned", "raised"}

\* C12: probe is all-or-nothing.  What it returns is exactly one sample per
\* metric, each labelled with the udn of the Device, and then all four
\* queries succeeded; when all four succeed and the Device has a udn, probe
\* returns; when any query fails probe raises; and unless probe returns
\* the caller has no sample.
C12_AllOrNothing ==
    /\ ppc = "returned" =>
          /\ \A m \in MetricSet : mpc[m] = "done"
          /\ Len(pret) = Len(Metrics)
          /\ \A m \in MetricSet :
                Cardinality({i \in 1..Len(pret) : pret[i].name[2] = m}) = 1
          /\ \A i \in 1..Len(pret) :
                pret[i].udn = dev_ret.value.udn /\ ~pret[i].udn.isNone
    /\ (ProbeEnded /\ ~dev_ret.value.udn.isNone /\ \A m \in MetricSet : mpc[m] = "done")
          => ppc = "returned"
    /\ (ProbeEnded /\ \E m \in MetricSet : mpc[m] = "raised") => ppc = "raised"
    /\ ppc # "returned" => pret = <<>>

\* The third query fails after two samples were appended, the fourth has
\* succeeded before it: probe raises and hands over nothing.
C12_Witness ==
    /\ ppc = "raised"
    /\ mpc[Metrics[3]] = "raised"
    /\ mpc[Metrics[4]] = "done"
    /\ completed = <<Metrics[4], Metrics[1], Metrics[2], Metrics[3]>>
    /\ Len(presult) = 2
    /\ pret = <<>>

\* C19: the samples probe returns are in the order of Metrics whatever the
\* order in which the queries completed, and the value of each sample is
\* the (corrected) value its own metric's query returned.
C19_FixedOrderAndPairing ==
    ppc = "returned" =>
        /\ Len(pret) = Len(Metrics)
        /\ \A i \in 1..Len(pret) :
              /\ pret[i].name[2] = Metrics[i]
              /\ IsCorrectionOf(pret[i].value, raw[Metrics[i]])

\* The queries completed last metric first, each with a value of its own.
C19_Witness ==
    /\ ppc = "returned"
    /\ completed = <<Metrics[4], Metrics[3], Metrics[2], Metrics[1]>>
    /\ raw[Metrics[1]] = Zero
    /\ raw[Metrics[2]] = MaxUInt32
    /\ raw[Metrics[3]] = MinusOne
    /\ raw[Metrics[4]] = MinInt32
    /\ pret[1].name[2] = "TotalBytesReceived"
    /\ pret[4].name[2] = "TotalPacketsSent"


(* ------------------------ properties of both fan-outs ------------------ *)

\* C17: search has returned or raised only when neither discovery worker
\* is waiting for a thread or running, and probe has returned or raised
\* only when none of the four metric queries is waiting or running, also
\* after one of them failed early.
C17_JoinStyle ==
    /\ spc \in {"returned", "raised"} =>
          \A f \in Families : pc[f] \in {"idle", "done", "raised", "cancelled"}
    /\ ppc \in {"returned", "raised"} =>
          \A m \in MetricSet : mpc[m] \in {"idle", "done", "raised", "cancelled"}

\* The first query failed before any other ended; the others ran on to
\* their results and only then did probe raise.
C17_Witness ==
    /\ ppc = "raised"
    /\ mpc[Metrics[1]] = "raised"
    /\ completed = <<Metrics[1], Metrics[2], Metrics[3], Metrics[4]>>
    /\ \A i \in 2..Len(Metrics) : mpc[Metrics[i]] = "done"


(* -------------------- properties of the nexsan Collector --------------- *)

RECURSIVE collect_children(_, _)
collect_children(fams, children) ==
    IF children = <<>> THEN Collected(fams)
    ELSE LET r == collect_child(fams, Head(children))
         IN  IF r.raised THEN r ELSE collect_children(r.fams, Tail(children))

\* The samples one call of collect adds to each family of a new Collector.
OneCall == collect_children(NewFamilies, opstats).fams

RECURSIVE Copies(_, _)
Copies(sq, k) == IF k = 0 THEN <<>> ELSE sq \o Copies(sq, k - 1)

\* C20: what the k-th call of collect on a Collector yields is the same
\* fixed sequence of families as every call, and each family holds k
\* copies of the samples one call produces for it.
C20_SamplesAccumulate ==
    yielded # <<>> =>
        /\ Len(yielded) = Len(FamilyNames)
        /\ \A i \in 1..Len(yielded) :
              /\ yielded[i].name = FamilyNames[i]
              /\ yielded[i].samples = Copies(OneCall[FamilyNames[i]], ncalls)

C20_Witness ==
    /\ opstats = <<SysDetails, EnvOne>>
    /\ ncalls = 2
    /\ yielded # <<>>
    /\ Len(yielded[1].samples) = 2
    /\ Len(yielded[7].samples) = 4
    /\ yielded[2].samples[1] = yielded[2].samples[2]

====
